---- MODULE Spec2Model ----
(***************************************************************************)
(* Claudy - workspace registry and launcher (src/src/index.ts).            *)
(*                                                                         *)
(* Strings are TLA+ strings.  A canonical absolute path is the sequence of *)
(* its segments (<<>> is "/").  A path as typed by the user is a sequence  *)
(* of tokens: "" is <<>>, "~" is <<"~">>, "/ls" is <<"/", "ls">>,          *)
(* "../ls" is <<"..", "ls">>.  A workspace is a record whose addDirs       *)
(* field is present or absent, as in the persisted JSON.  Indices are      *)
(* 1-based here and 0-based in the source; "not found" is 0 here.          *)
(***************************************************************************)
EXTENDS Integers, Sequences, FiniteSets, TLC

VARIABLES file, fs, proc, spawned, last

vars == <<file, fs, proc, spawned, last>>

(* ---- bounds of the model ---- *)
MaxWs == 2          \* add is explored while the registry is shorter

Procs == {1, 2}     \* invocations of the tool (Spec runs only the first)

(* ---- the universe of inputs ---- *)
Root == <<>>
HomeDir == <<"home">>
Paths == {Root, <<"home">>, <<"ls">>}
Deletable == {<<"home">>}        \* directories the environment removes
ProcCwd == <<"home">>            \* process.cwd() of every invocation
CwdInputs == {<<>>, <<"~">>, <<"/">>}
DirInputs == {<<>>, <<"~">>, <<"/", "ls">>, <<"..", "ls">>}
DirArgs == {<<>>, << <<"~">> >>, << <<"/", "ls">>, <<"~">> >>,
            << <<"~">>, <<"/", "ls">>, <<"..", "ls">> >>,
            << <<"/", "ls">>, <<"/", "ls">> >>}
NameInputs == {"", "home", "Home", "ls"}
LaunchNames == {"", "home", "HOME", "ls", "LS"}
DescInputs == {"", "notes"}
ChildCodes == {0, 3}

Range(s) == {s[i] : i \in 1..Len(s)}

Min(S) == CHOOSE m \in S : \A k \in S : m <= k

(* ---- path and string functions ---- *)

\* path.resolve / path.join normalisation of "." and ".." segments
RECURSIVE normalize(_, _)
normalize(acc, toks) ==
  IF toks = <<>> THEN acc
  ELSE LET t == Head(toks)
       IN IF t = "." THEN normalize(acc, Tail(toks))
          ELSE IF t = ".."
               THEN normalize(IF acc = <<>> THEN <<>>
                              ELSE SubSeq(acc, 1, Len(acc) - 1), Tail(toks))
               ELSE normalize(Append(acc, t), Tail(toks))

resolvePath(s) ==
  IF s = <<>> THEN ProcCwd
  ELSE IF Head(s) = "~" THEN normalize(HomeDir, Tail(s))
  ELSE IF Head(s) = "/" THEN normalize(Root, Tail(s))
  ELSE normalize(ProcCwd, s)

\* path.basename: the final segment, "" for the root
basename(p) == IF p = <<>> THEN "" ELSE p[Len(p)]

exists(p) == p \in fs

\* String.prototype.toLowerCase on the strings of the universe
toLowerCase(s) ==
  CASE s = "Home" -> "home"
    [] s = "HOME" -> "home"
    [] s = "LS" -> "ls"
    [] OTHER -> s

(* ---- config store ---- *)

\* the persisted document: absent, unparsable, parsed without a workspaces
\* array, or parsed with one
load(f) == IF f.kind = "json" THEN f.workspaces ELSE <<>>

\* the console.error of load: only the catch branch prints the warning
loadWarns(f) == f.kind = "unparsable"

\* what something other than the tool can leave at the path of the document
Foreign == {"absent", "unparsable", "shapeless"}

save(c) == [kind |-> "json", workspaces |-> c]

(* ---- registry lookups ---- *)

findByNameCaseSensitive(c, n) ==
  LET S == {i \in 1..Len(c) : c[i].name = n}
  IN IF S = {} THEN 0 ELSE Min(S)

findByName(c, n) ==
  LET S == {i \in 1..Len(c) : toLowerCase(c[i].name) = toLowerCase(n)}
  IN IF S = {} THEN 0 ELSE Min(S)

findByCwdSkipsFirst(c, p) ==
  LET S == {i \in 2..Len(c) : c[i].cwd = p}
  IN IF S = {} THEN 0 ELSE Min(S)

findByCwd(c, p) ==
  LET S == {i \in 1..Len(c) : c[i].cwd = p}
  IN IF S = {} THEN 0 ELSE Min(S)

\* config.workspaces.findIndex(w => w.name.toLowerCase() === n.toLowerCase())
findIndex(c, n) ==
  LET S == {i \in 1..Len(c) : toLowerCase(c[i].name) = toLowerCase(n)}
  IN IF S = {} THEN 0 ELSE Min(S)

hasAddDirs(w) == "addDirs" \in DOMAIN w

\* ws.addDirs ?? []
addDirsOf(w) == IF hasAddDirs(w) THEN w.addDirs ELSE <<>>

\* [...new Set(a)]: first occurrences, in order
RECURSIVE unique(_)
unique(a) ==
  IF a = <<>> THEN <<>>
  ELSE LET r == unique(SubSeq(a, 1, Len(a) - 1))
           x == a[Len(a)]
       IN IF x \in Range(r) THEN r ELSE Append(r, x)

withoutNothing(a, p) == a

\* a.filter(d => d !== p)
RECURSIVE without(_, _)
without(a, p) ==
  IF a = <<>> THEN <<>>
  ELSE IF Head(a) = p THEN without(Tail(a), p)
  ELSE <<Head(a)>> \o without(Tail(a), p)

spliceFirst(a, i) == Tail(a)

\* a.splice(i, 1), i 1-based
splice(a, i) == SubSeq(a, 1, i - 1) \o SubSeq(a, i + 1, Len(a))

\* a.map(resolvePath)
resolveAll(a) == [i \in 1..Len(a) |-> resolvePath(a[i])]

mkWorkspaceKeepsEmpty(name, desc, cwd, dirs) ==
  [name |-> name, description |-> desc, cwd |-> cwd, addDirs |-> dirs]

\* the object literal of cmdAdd: addDirs is spread in only when non-empty
mkWorkspace(name, desc, cwd, dirs) ==
  IF Len(dirs) > 0
  THEN [name |-> name, description |-> desc, cwd |-> cwd, addDirs |-> dirs]
  ELSE [name |-> name, description |-> desc, cwd |-> cwd]

\* ws.addDirs = dirs; if (ws.addDirs.length === 0) delete ws.addDirs
setAddDirs(w, dirs) == mkWorkspace(w.name, w.description, w.cwd, dirs)

(* ---- process state ---- *)

NoWs == [name |-> "", description |-> "", cwd |-> Root]

\* process.argv.slice(2): n elements, the first is cmd, the others are args
NoArgs == [argc |-> 0, a0 |-> "", a1 |-> <<>>, rest |-> <<>>]

NoArgv == [n |-> 0, cmd |-> "", args |-> NoArgs]

Idle == [pc |-> "idle", args |-> NoArgs, config |-> <<>>, idx |-> 0,
         ws |-> NoWs, exitCode |-> -1, msg |-> "none"]

\* process.exit(code): nothing of the process is left but its exit code and
\* what it printed last
exit(l, code, msg) == [Idle EXCEPT !.pc = "exited", !.exitCode = code, !.msg = msg]

dieExitsZero(l, msg) == exit(l, 0, msg)

\* die(msg): message on stderr, process.exit(1)
die(l, msg) == exit(l, 1, msg)

DieMsgs == {"Directory not found", "already exists", "already registered",
            "No workspaces configured", "not found",
            "Working directory not found", "Additional directory not found"}

\* the command returns and the process ends normally
finish(l) == exit(l, 0, l.msg)

\* the step the tool took last: an invocation, an answer of the prompt or
\* selection collaborator (cancelled or not), the exit of the child, or none
\* sel is the option chosen in a selection (1-based), 0 otherwise
Event(k, c, i) == [kind |-> k, cancelled |-> c, sel |-> i]
Invoked == Event("invoke", FALSE, 0)
Chose(i) == Event("answer", i = 0, i)
Typed(c) == Event("answer", c, 0)
ChildDone == Event("child", FALSE, 0)
NoStep == Event("none", FALSE, 0)

\* what a command or a handler leaves behind: the process state, the
\* persisted document and the processes it spawned
Res(l, f, sp) == [l |-> l, file |-> f, spawn |-> sp]

\* args[0] || ..., args[1] ?? "": an absent argument behaves as ""
Arg0(args) == IF args.argc >= 1 THEN args.a0 ELSE ""
Arg1(args) == IF args.argc >= 2 THEN args.a1 ELSE <<>>

(* ---- cmdAdd, up to its first prompt ---- *)
cmdAddTrustsAddDirs(l, args) ==
  LET config == load(file)
      isInteractive == args.argc = 0
      cwd == resolvePath(Arg1(args))
      name == IF Arg0(args) # "" THEN Arg0(args) ELSE basename(cwd)
      addDirs == without(resolveAll(args.rest), cwd)
      uniqueAddDirs == unique(addDirs)
      ws == mkWorkspace(name, name, cwd, uniqueAddDirs)
      m == [l EXCEPT !.config = config, !.args = args]
  IN IF ~exists(cwd) THEN die(m, "Directory not found")
     ELSE IF findByName(config, name) # 0 THEN die(m, "already exists")
     ELSE IF findByCwd(config, cwd) # 0 THEN die(m, "already registered")
     ELSE [m EXCEPT !.ws = ws,
                    !.pc = IF isInteractive THEN "add_desc" ELSE "add_confirm"]

cmdAdd(l, args) ==
  LET config == load(file)
      isInteractive == args.argc = 0
      cwd == resolvePath(Arg1(args))
      name == IF Arg0(args) # "" THEN Arg0(args) ELSE basename(cwd)
      addDirs == without(resolveAll(args.rest), cwd)
      uniqueAddDirs == unique(addDirs)
      ws == mkWorkspace(name, name, cwd, uniqueAddDirs)
      m == [l EXCEPT !.config = config, !.args = args]
  IN IF ~exists(cwd) THEN die(m, "Directory not found")
     ELSE IF findByName(config, name) # 0 THEN die(m, "already exists")
     ELSE IF findByCwd(config, cwd) # 0 THEN die(m, "already registered")
     ELSE IF \E i \in 1..Len(addDirs) : ~exists(addDirs[i])
          THEN die(m, "Directory not found")
     ELSE [m EXCEPT !.ws = ws,
                    !.pc = IF isInteractive THEN "add_desc" ELSE "add_confirm"]

(* ---- launch ---- *)
Lit(s) == [lit |-> s]
Dir(d) == [path |-> d]

RECURSIVE addDirFlagsDirFirst(_)
addDirFlagsDirFirst(dirs) ==
  IF dirs = <<>> THEN <<>>
  ELSE <<Dir(Head(dirs)), Lit("--add-dir")>> \o addDirFlagsDirFirst(Tail(dirs))

\* (ws.addDirs ?? []).flatMap(d => ["--add-dir", d])
RECURSIVE addDirFlags(_)
addDirFlags(dirs) ==
  IF dirs = <<>> THEN <<>>
  ELSE <<Lit("--add-dir"), Dir(Head(dirs))>> \o addDirFlags(Tail(dirs))

\* launch(): Bun.spawn(["claude"]) without a cwd option
launchBare(l) ==
  Res([l EXCEPT !.pc = "waiting", !.msg = "Launching Claude"], file,
      <<[argv |-> <<Lit("claude")>>]>>)

launchChecksCwdOnly(l, w) ==
  IF ~exists(w.cwd) THEN Res(die(l, "Working directory not found"), file, <<>>)
  ELSE Res([l EXCEPT !.pc = "waiting", !.ws = w, !.msg = "Launching workspace"],
           file,
           <<[argv |-> <<Lit("claude")>> \o addDirFlags(addDirsOf(w)),
              cwd |-> w.cwd]>>)

\* launch(ws): re-validate, then Bun.spawn(args, {cwd: ws.cwd})
launch(l, w) ==
  IF ~exists(w.cwd) THEN Res(die(l, "Working directory not found"), file, <<>>)
  ELSE IF \E i \in 1..Len(addDirsOf(w)) : ~exists(addDirsOf(w)[i])
       THEN Res(die(l, "Additional directory not found"), file, <<>>)
  ELSE Res([l EXCEPT !.pc = "waiting", !.ws = w, !.msg = "Launching workspace"],
           file,
           <<[argv |-> <<Lit("claude")>> \o addDirFlags(addDirsOf(w)),
              cwd |-> w.cwd]>>)

(* ---- cmdRm, cmdEdit, cmdLaunch up to their first prompt ---- *)
cmdRm(l, args) ==
  LET config == load(file)
      m == [l EXCEPT !.config = config]
      idx == findIndex(config, Arg0(args))
  IN IF Len(config) = 0 THEN Res(die(m, "No workspaces configured"), file, <<>>)
     ELSE IF Arg0(args) # ""
          THEN IF idx = 0 THEN Res(die(m, "not found"), file, <<>>)
               ELSE Res(finish([m EXCEPT !.msg = "Deleted"]),
                        save(splice(config, idx)), <<>>)
     ELSE Res([m EXCEPT !.pc = "rm_pick"], file, <<>>)

cmdEdit(l, args) ==
  LET config == load(file)
      m == [l EXCEPT !.config = config]
      idx == findIndex(config, Arg0(args))
  IN IF Len(config) = 0 THEN Res(die(m, "No workspaces configured"), file, <<>>)
     ELSE IF Arg0(args) # ""
          THEN IF idx = 0 THEN Res(die(m, "not found"), file, <<>>)
               ELSE Res([m EXCEPT !.idx = idx, !.pc = "edit_field"], file, <<>>)
     ELSE Res([m EXCEPT !.pc = "edit_pick"], file, <<>>)

cmdLs(l) == finish(l)

cmdLaunch(l, name) ==
  LET config == load(file)
      m == [l EXCEPT !.config = config]
      i == findByName(config, name)
  IN IF name # ""
     THEN IF i = 0 THEN Res(die(m, "not found"), file, <<>>)
          ELSE launch(m, config[i])
     ELSE IF Len(config) = 0 THEN Res([m EXCEPT !.pc = "welcome"], file, <<>>)
     ELSE Res([m EXCEPT !.pc = "selector"], file, <<>>)

\* the switch on cmd at the end of the file
main(l, argv) ==
  LET cmd == argv.cmd
      args == argv.args
  IN IF cmd \in {"add", "init"} THEN Res(cmdAdd(l, args), file, <<>>)
     ELSE IF cmd \in {"rm", "delete"} THEN cmdRm(l, args)
     ELSE IF cmd = "edit" THEN cmdEdit(l, args)
     ELSE IF cmd \in {"ls", "list"} THEN Res(cmdLs(l), file, <<>>)
     ELSE IF cmd \in {"help", "-h", "--help"} THEN Res(finish(l), file, <<>>)
     ELSE IF cmd \in {"-v", "--version"} THEN Res(finish(l), file, <<>>)
     ELSE cmdLaunch(l, cmd)


(* ---- the prompts of cmdAdd ---- *)

\* prompt("Description [name]: "): null returns, "" keeps the name
addDesc(l, cancelled, input) ==
  IF cancelled THEN finish(l)
  ELSE [l EXCEPT !.pc = "add_confirm",
                 !.ws.description = IF input # "" THEN input ELSE l.ws.name]

addConfirmReloads(l, i) ==
  IF i # 1 THEN Res(finish(l), file, <<>>)
  ELSE LET c == Append(load(file), l.ws)
       IN Res(finish([l EXCEPT !.msg = "Added"]), save(c), <<>>)

addConfirmSavesOnNull(l, i) ==
  IF i = 2 THEN Res(finish(l), file, <<>>)
  ELSE LET c == Append(l.config, l.ws)
       IN Res(finish([l EXCEPT !.msg = "Added"]), save(c), <<>>)

\* select([Save, Cancel]): i = 0 is null, i = 1 is Save
addConfirm(l, i) ==
  IF i # 1 THEN Res(finish(l), file, <<>>)
  ELSE LET c == Append(l.config, l.ws)
       IN Res(finish([l EXCEPT !.msg = "Added"]), save(c), <<>>)

(* ---- the prompts of cmdRm ---- *)
rmPick(l, i) ==
  IF i = 0 THEN finish(l) ELSE [l EXCEPT !.idx = i, !.pc = "rm_confirm"]

rmConfirmReloads(l, i) ==
  IF i # 1 THEN Res(finish(l), file, <<>>)
  ELSE LET c == splice(load(file), l.idx)
       IN Res(finish([l EXCEPT !.msg = "Deleted"]), save(c), <<>>)

rmConfirm(l, i) ==
  IF i # 1 THEN Res(finish(l), file, <<>>)
  ELSE LET c == splice(l.config, l.idx)
       IN Res(finish([l EXCEPT !.msg = "Deleted"]), save(c), <<>>)

(* ---- cmdEdit: the picker and editLoop ---- *)
editPick(l, i) ==
  IF i = 0 THEN finish(l) ELSE [l EXCEPT !.idx = i, !.pc = "edit_field"]

\* the field menu: Name, Description, Working dir, Additional dirs, Done
editField(l, i) ==
  IF i = 0 \/ i = 5 THEN finish(l)
  ELSE [l EXCEPT !.msg = "none",
                 !.pc = CASE i = 1 -> "edit_name"
                          [] i = 2 -> "edit_desc"
                          [] i = 3 -> "edit_cwd"
                          [] OTHER -> "edit_dirs"]

\* what the loop does after a field was handled: the menu again
again(l, c, msg) == [l EXCEPT !.config = c, !.msg = msg, !.pc = "edit_field"]

\* case 0: Name
editName(l, cancelled, v) ==
  LET config == l.config
      ws == config[l.idx]
  IN IF ~cancelled /\ v # "" /\ v # ws.name
     THEN IF findByName(config, v) # 0
          THEN Res(again(l, config, "warn: already exists"), file, <<>>)
          ELSE LET c == [config EXCEPT ![l.idx].name = v]
               IN Res(again(l, c, "none"), save(c), <<>>)
     ELSE Res(again(l, config, "none"), file, <<>>)

editDescOfFirst(l, cancelled, v) ==
  LET config == l.config
  IN IF ~cancelled /\ v # ""
     THEN LET c == [config EXCEPT ![1].description = v]
          IN Res(again(l, c, "none"), save(c), <<>>)
     ELSE Res(again(l, config, "none"), file, <<>>)

\* case 1: Description
editDesc(l, cancelled, v) ==
  LET config == l.config
  IN IF ~cancelled /\ v # ""
     THEN LET c == [config EXCEPT ![l.idx].description = v]
          IN Res(again(l, c, "none"), save(c), <<>>)
     ELSE Res(again(l, config, "none"), file, <<>>)

editCwdKeepsAddDirs(l, cancelled, v) ==
  LET config == l.config
      ws == config[l.idx]
      p == resolvePath(v)
      j == findByCwd(config, p)
  IN IF ~cancelled /\ v # <<>>
     THEN IF ~exists(p)
          THEN Res(again(l, config, "warn: Not found: path"), file, <<>>)
          ELSE IF j # 0 /\ config[j].name # ws.name
               THEN Res(again(l, config, "warn: Already used"), file, <<>>)
          ELSE LET c == [config EXCEPT ![l.idx].cwd = p]
               IN Res(again(l, c, "none"), save(c), <<>>)
     ELSE Res(again(l, config, "none"), file, <<>>)

\* case 2: Working dir
editCwd(l, cancelled, v) ==
  LET config == l.config
      ws == config[l.idx]
      p == resolvePath(v)
      j == findByCwd(config, p)
  IN IF ~cancelled /\ v # <<>>
     THEN IF ~exists(p)
          THEN Res(again(l, config, "warn: Not found: path"), file, <<>>)
          ELSE IF j # 0 /\ config[j].name # ws.name
               THEN Res(again(l, config, "warn: Already used"), file, <<>>)
          ELSE LET w == IF hasAddDirs(ws)
                        THEN mkWorkspace(ws.name, ws.description, p,
                                         without(ws.addDirs, p))
                        ELSE [ws EXCEPT !.cwd = p]
                   c == [config EXCEPT ![l.idx] = w]
               IN Res(again(l, c, "none"), save(c), <<>>)
     ELSE Res(again(l, config, "none"), file, <<>>)

\* case 3: the sub-menu Add, Remove, Clear, Back
editDirs(l, i) ==
  LET config == l.config
      ws == config[l.idx]
  IN IF i = 1 THEN Res([l EXCEPT !.pc = "edit_dirs_add"], file, <<>>)
     ELSE IF i = 2
          THEN IF Len(addDirsOf(ws)) = 0
               THEN Res(again(l, config, "warn: No directories to remove"), file, <<>>)
               ELSE Res([l EXCEPT !.pc = "edit_dirs_rm"], file, <<>>)
     ELSE IF i = 3 /\ Len(addDirsOf(ws)) > 0
          THEN LET c == [config EXCEPT ![l.idx] = setAddDirs(ws, <<>>)]
               IN Res(again(l, c, "Cleared all"), save(c), <<>>)
     ELSE Res(again(l, config, "none"), file, <<>>)

editDirsAddDiesOnMissing(l, cancelled, v) ==
  LET config == l.config
      ws == config[l.idx]
      p == resolvePath(v)
  IN IF ~cancelled /\ v # <<>>
     THEN IF ~exists(p) THEN Res(die(l, "Directory not found"), file, <<>>)
          ELSE IF p = ws.cwd
               THEN Res(again(l, config, "warn: Same as working directory"), file, <<>>)
          ELSE IF p \in Range(addDirsOf(ws))
               THEN Res(again(l, config, "warn: Already added"), file, <<>>)
          ELSE LET c == [config EXCEPT
                           ![l.idx] = setAddDirs(ws, Append(addDirsOf(ws), p))]
               IN Res(again(l, c, "Added"), save(c), <<>>)
     ELSE Res(again(l, config, "none"), file, <<>>)

\* action 0: prompt("Path: ")
editDirsAdd(l, cancelled, v) ==
  LET config == l.config
      ws == config[l.idx]
      p == resolvePath(v)
  IN IF ~cancelled /\ v # <<>>
     THEN IF ~exists(p) THEN Res(again(l, config, "warn: Not found"), file, <<>>)
          ELSE IF p = ws.cwd
               THEN Res(again(l, config, "warn: Same as working directory"), file, <<>>)
          ELSE IF p \in Range(addDirsOf(ws))
               THEN Res(again(l, config, "warn: Already added"), file, <<>>)
          ELSE LET c == [config EXCEPT
                           ![l.idx] = setAddDirs(ws, Append(addDirsOf(ws), p))]
               IN Res(again(l, c, "Added"), save(c), <<>>)
     ELSE Res(again(l, config, "none"), file, <<>>)

\* action 1: the picker over ws.addDirs
editDirsRm(l, di) ==
  LET config == l.config
      ws == config[l.idx]
  IN IF di # 0
     THEN LET c == [config EXCEPT
                      ![l.idx] = setAddDirs(ws, splice(ws.addDirs, di))]
          IN Res(again(l, c, "Removed"), save(c), <<>>)
     ELSE Res(again(l, config, "none"), file, <<>>)

(* ---- cmdLaunch: welcome screen, selector, manage menu ---- *)
welcome(l, i) ==
  IF i = 1 THEN Res(cmdAdd(l, NoArgs), file, <<>>)
  ELSE IF i = 2 THEN launchBare(l)
  ELSE Res(finish(l), file, <<>>)

manage(l, a) ==
  IF a = 1 THEN Res(cmdAdd(l, NoArgs), file, <<>>)
  ELSE IF a = 2 THEN cmdEdit(l, NoArgs)
  ELSE IF a = 3 THEN cmdRm(l, NoArgs)
  ELSE IF a = 4 THEN Res(cmdLs(l), file, <<>>)
  ELSE Res(finish(l), file, <<>>)

selector(l, i) ==
  LET wsCount == Len(l.config)
  IN IF i = 0 THEN Res(finish(l), file, <<>>)
     ELSE IF i <= wsCount THEN launch(l, l.config[i])
     ELSE IF i = wsCount + 1 THEN launchBare(l)
     ELSE Res([l EXCEPT !.pc = "manage"], file, <<>>)

(* ---- the invocations explored ---- *)
Args1(names) == {[argc |-> 1, a0 |-> n, a1 |-> <<>>, rest |-> <<>>] : n \in names}

AddArgs ==
  {NoArgs} \cup Args1(NameInputs) \cup
  {[argc |-> 2 + Len(r), a0 |-> n, a1 |-> c, rest |-> r] :
     n \in NameInputs, c \in CwdInputs, r \in DirArgs}

Argv(c, a) == [n |-> 1 + a.argc, cmd |-> c, args |-> a]

Invocations ==
  {NoArgv} \cup
  {Argv(c, NoArgs) : c \in LaunchNames \cup {"list", "help", "--version"}} \cup
  {Argv(c, a) : c \in {"add"}, a \in AddArgs} \cup
  {Argv("init", NoArgs)} \cup
  {Argv(c, a) : c \in {"rm", "edit"}, a \in {NoArgs} \cup Args1(LaunchNames)} \cup
  {Argv("delete", NoArgs)}

(* ---- the state machine ---- *)
Init ==
  /\ file = [kind |-> "absent", workspaces |-> <<>>]
  /\ fs = Paths
  /\ proc = [p \in Procs |-> Idle]
  /\ spawned = [p \in Procs |-> <<>>]
  /\ last = NoStep

\* a step of process p that leaves r behind
Step(p, r, ev) ==
  /\ proc' = [proc EXCEPT ![p] = r.l]
  /\ file' = r.file
  /\ spawned' = [spawned EXCEPT ![p] = spawned[p] \o r.spawn]
  /\ last' = ev
  /\ UNCHANGED fs

\* add is explored while the loaded registry is shorter than MaxWs
Bounded(l) == l.pc \in {"add_desc", "add_confirm"} => Len(l.config) < MaxWs

\* the tool is started: process.argv and process.cwd() are given, main runs
\* up to the first prompt, the spawn or the exit
Invoke(p) ==
  /\ proc[p].pc = "idle"
  /\ \E a \in Invocations :
       LET r == main([Idle EXCEPT !.pc = "running"], a)
       IN /\ Bounded(r.l)
          /\ proc' = [proc EXCEPT ![p] = r.l]
          /\ file' = r.file
          /\ spawned' = [spawned EXCEPT ![p] = r.spawn]
          /\ last' = Invoked
          /\ UNCHANGED fs

\* the process is gone and the tool can be started again
Reap(p) ==
  /\ proc[p].pc = "exited"
  /\ proc' = [proc EXCEPT ![p] = Idle]
  /\ spawned' = [spawned EXCEPT ![p] = <<>>]
  /\ last' = NoStep
  /\ UNCHANGED <<file, fs>>

AddDesc(p) ==
  /\ proc[p].pc = "add_desc"
  /\ \E c \in BOOLEAN, v \in DescInputs :
       Step(p, Res(addDesc(proc[p], c, v), file, <<>>), Typed(c))

AddConfirm(p) ==
  /\ proc[p].pc = "add_confirm"
  /\ \E i \in 0..2 : Step(p, addConfirm(proc[p], i), Chose(i))

RmPick(p) ==
  /\ proc[p].pc = "rm_pick"
  /\ \E i \in 0..Len(proc[p].config) :
       Step(p, Res(rmPick(proc[p], i), file, <<>>), Chose(i))

RmConfirm(p) ==
  /\ proc[p].pc = "rm_confirm"
  /\ \E i \in 0..2 : Step(p, rmConfirm(proc[p], i), Chose(i))

EditPick(p) ==
  /\ proc[p].pc = "edit_pick"
  /\ \E i \in 0..Len(proc[p].config) :
       Step(p, Res(editPick(proc[p], i), file, <<>>), Chose(i))

EditField(p) ==
  /\ proc[p].pc = "edit_field"
  /\ \E i \in 0..5 :
       Step(p, Res(editField(proc[p], i), file, <<>>), Chose(i))

EditName(p) ==
  /\ proc[p].pc = "edit_name"
  /\ \E c \in BOOLEAN, v \in NameInputs :
       Step(p, editName(proc[p], c, v), Typed(c))

EditDesc(p) ==
  /\ proc[p].pc = "edit_desc"
  /\ \E c \in BOOLEAN, v \in DescInputs :
       Step(p, editDesc(proc[p], c, v), Typed(c))

EditCwd(p) ==
  /\ proc[p].pc = "edit_cwd"
  /\ \E c \in BOOLEAN, v \in CwdInputs :
       Step(p, editCwd(proc[p], c, v), Typed(c))

EditDirs(p) ==
  /\ proc[p].pc = "edit_dirs"
  /\ \E i \in 0..4 : Step(p, editDirs(proc[p], i), Chose(i))

EditDirsAdd(p) ==
  /\ proc[p].pc = "edit_dirs_add"
  /\ \E c \in BOOLEAN, v \in DirInputs :
       Step(p, editDirsAdd(proc[p], c, v), Typed(c))

EditDirsRm(p) ==
  /\ proc[p].pc = "edit_dirs_rm"
  /\ \E i \in 0..Len(addDirsOf(proc[p].config[proc[p].idx])) :
       Step(p, editDirsRm(proc[p], i), Chose(i))

Welcome(p) ==
  /\ proc[p].pc = "welcome"
  /\ \E i \in 0..2 :
       /\ Bounded(welcome(proc[p], i).l)
       /\ Step(p, welcome(proc[p], i), Chose(i))

Selector(p) ==
  /\ proc[p].pc = "selector"
  /\ \E i \in 0..(Len(proc[p].config) + 2) :
       Step(p, selector(proc[p], i), Chose(i))

Manage(p) ==
  /\ proc[p].pc = "manage"
  /\ \E a \in 0..4 :
       /\ Bounded(manage(proc[p], a).l)
       /\ Step(p, manage(proc[p], a), Chose(a))

\* await p.exited; process.exit(p.exitCode ?? 0): code -1 stands for null
\* the spawned program with the exit code it ended with
exited(child, code) ==
  [f \in DOMAIN child \cup {"exitCode"} |->
     IF f = "exitCode" THEN code ELSE child[f]]

ChildExitDropsCode(p) ==
  /\ proc[p].pc = "waiting"
  /\ \E code \in ChildCodes \cup {-1} :
       /\ proc' = [proc EXCEPT ![p] = exit(proc[p], 0, "none")]
       /\ spawned' = [spawned EXCEPT ![p] = <<exited(spawned[p][1], code)>>]
       /\ last' = ChildDone
       /\ UNCHANGED <<file, fs>>

ChildExit(p) ==
  /\ proc[p].pc = "waiting"
  /\ \E code \in ChildCodes \cup {-1} :
       /\ proc' = [proc EXCEPT
                     ![p] = exit(proc[p], IF code = -1 THEN 0 ELSE code, "none")]
       /\ spawned' = [spawned EXCEPT ![p] = <<exited(spawned[p][1], code)>>]
       /\ last' = ChildDone
       /\ UNCHANGED <<file, fs>>

\* the environment removes or creates a directory
RmDir ==
  /\ \E d \in fs \cap Deletable : fs' = fs \ {d}
  /\ UNCHANGED <<file, proc, spawned, last>>

MkDir ==
  /\ \E d \in Paths \ fs : fs' = fs \cup {d}
  /\ UNCHANGED <<file, proc, spawned, last>>

Run(p) ==
  \/ Invoke(p) \/ Reap(p)
  \/ AddDesc(p) \/ AddConfirm(p)
  \/ RmPick(p) \/ RmConfirm(p)
  \/ EditPick(p) \/ EditField(p) \/ EditName(p) \/ EditDesc(p) \/ EditCwd(p)
  \/ EditDirs(p) \/ EditDirsAdd(p) \/ EditDirsRm(p)
  \/ Welcome(p) \/ Selector(p) \/ Manage(p)
  \/ ChildExit(p)

Next == Run(1) \/ RmDir \/ MkDir

Spec == Init /\ [][Next]_vars

\* the document is deleted or overwritten by something other than the tool:
\* with text that does not parse, or with JSON without a workspaces array
Clobber ==
  /\ \E k \in Foreign \ {file.kind} : file' = [kind |-> k, workspaces |-> <<>>]
  /\ UNCHANGED <<fs, proc, spawned, last>>

NextStore == Next \/ Clobber

\* the tool, with a document that the environment can replace
SpecStore == Init /\ [][NextStore]_vars

(* ---- two invocations at once ---- *)

\* registries the tool has written before the two invocations start:
\* after claudy add home ~, and after claudy add ls / /ls as well
Seed1 == <<[name |-> "home", description |-> "home", cwd |-> HomeDir]>>

Seed2 ==
  Seed1 \o <<[name |-> "ls", description |-> "ls", cwd |-> Root,
              addDirs |-> << <<"ls">> >>]>>

ConcAdds ==
  {[argc |-> 2, a0 |-> "ls", a1 |-> <<"/">>, rest |-> <<>>],
   [argc |-> 2, a0 |-> "Home", a1 |-> <<"~">>, rest |-> <<>>]}

ConcInvocations ==
  {Argv("add", a) : a \in ConcAdds} \cup
  {Argv("edit", NoArgs), Argv("rm", NoArgs),
   Argv("rm", [argc |-> 1, a0 |-> "home", a1 |-> <<>>, rest |-> <<>>])}

\* the answers to the field menu: cancel, Name, Description, Working dir, Done
ConcFields == {0, 1, 2, 3, 5}

InitConc ==
  /\ file \in {[kind |-> "absent", workspaces |-> <<>>], save(Seed1), save(Seed2)}
  /\ fs = Paths
  /\ proc = [p \in Procs |-> Idle]
  /\ spawned = [p \in Procs |-> <<>>]
  /\ last = NoStep

\* one of the two invocations is started
ConcInvoke(p) ==
  /\ proc[p].pc = "idle"
  /\ \E a \in ConcInvocations :
       LET r == main([Idle EXCEPT !.pc = "running"], a)
       IN /\ Bounded(r.l)
          /\ proc' = [proc EXCEPT ![p] = r.l]
          /\ file' = r.file
          /\ spawned' = [spawned EXCEPT ![p] = r.spawn]
          /\ last' = Invoked
          /\ UNCHANGED fs

\* the field menu, answered with one of ConcFields
ConcEditField(p) ==
  /\ proc[p].pc = "edit_field"
  /\ \E i \in ConcFields :
       Step(p, Res(editField(proc[p], i), file, <<>>), Chose(i))

RunConc(p) ==
  \/ ConcInvoke(p)
  \/ AddConfirm(p)
  \/ RmPick(p) \/ RmConfirm(p)
  \/ EditPick(p) \/ ConcEditField(p)
  \/ EditName(p) \/ EditDesc(p) \/ EditCwd(p)

NextConc == \E p \in Procs : RunConc(p)

\* two invocations, each run once, their steps interleaved in every order
SpecConc == InitConc /\ [][NextConc]_vars

(* ---- properties ---- *)

\* the workspaces of the persisted registry, as load returns them
Registry == load(file)

Pairs(c) == {ij \in (1..Len(c)) \X (1..Len(c)) : ij[1] # ij[2]}

\* C1: no two workspaces of the persisted registry have names that are equal
\* when compared case-insensitively
C1_UniqueNames ==
  \A ij \in Pairs(Registry) :
    toLowerCase(Registry[ij[1]].name) # toLowerCase(Registry[ij[2]].name)

\* a rename was refused in a registry of two workspaces
C1_Witness ==
  /\ Len(Registry) = 2
  /\ proc[1].pc = "edit_field"
  /\ proc[1].msg = "warn: already exists"

\* C2: no two workspaces of the persisted registry have the same cwd
C2_UniqueCwds ==
  \A ij \in Pairs(Registry) : Registry[ij[1]].cwd # Registry[ij[2]].cwd

\* a change of working directory to the other workspace's cwd was refused
C2_Witness ==
  /\ Len(Registry) = 2
  /\ proc[1].pc = "edit_field"
  /\ proc[1].msg = "warn: Already used"

\* C3: the addDirs field of every persisted workspace, when present, is
\* non-empty, has no duplicate entry and has no entry equal to the cwd
C3_AddDirsWellFormed ==
  \A i \in 1..Len(Registry) :
    LET w == Registry[i]
    IN hasAddDirs(w) =>
         /\ Len(w.addDirs) > 0
         /\ \A j, k \in 1..Len(w.addDirs) : j # k => w.addDirs[j] # w.addDirs[k]
         /\ \A j \in 1..Len(w.addDirs) : w.addDirs[j] # w.cwd

\* the sub-menu removed one of two additional directories of a workspace
C3_Witness ==
  /\ proc[1].pc = "edit_field"
  /\ proc[1].msg = "Removed"
  /\ hasAddDirs(Registry[proc[1].idx])

\* C4: every workspace of the persisted registry has a non-empty name
C4_NamesNonEmpty == \A i \in 1..Len(Registry) : Registry[i].name # ""

\* the process as the tool starts
Fresh == [Idle EXCEPT !.pc = "running"]

\* the cwd an add with arguments a registers, and the name it gives
AddCwd(a) == resolvePath(Arg1(a))
AddName(a) == IF Arg0(a) # "" THEN Arg0(a) ELSE basename(AddCwd(a))

Collides(a) ==
  \/ \E i \in 1..Len(Registry) :
       toLowerCase(Registry[i].name) = toLowerCase(AddName(a))
  \/ \E i \in 1..Len(Registry) : Registry[i].cwd = AddCwd(a)

\* C5: whenever the tool can be started, an add whose name matches a
\* registered name in any case variant, or whose resolved cwd is a
\* registered cwd, ends with a fatal message and exit code 1, writes nothing
\* and spawns nothing
C5_AddCollisionIsFatal ==
  proc[1].pc = "idle" =>
    \A a \in AddArgs :
      Collides(a) =>
        LET r == main(Fresh, Argv("add", a))
        IN /\ r.l.pc = "exited"
           /\ r.l.exitCode = 1
           /\ r.l.msg \in DieMsgs
           /\ r.file = file
           /\ r.spawn = <<>>

\* an add died on a duplicate name
C5_Witness ==
  /\ proc[1].pc = "exited"
  /\ proc[1].msg = "already exists"
  /\ proc[1].exitCode = 1
  /\ Len(Registry) >= 1

\* the record add is to append for a name and a cwd given on the command line
Given(args) == [name |-> args.a0, description |-> args.a0, cwd |-> resolvePath(args.a1)]

\* C6 as claimed: when an add with a name and a cwd and no additional
\* directories, colliding with nothing, ends, the registry is the previous
\* one with the record of the given name and cwd appended
C6_AddAppendsAsClaimed ==
  [][(/\ proc[1].pc = "add_confirm"
      /\ proc[1].args.argc = 2
      /\ proc'[1].pc = "exited")
     => load(file') = Append(load(file), Given(proc[1].args))]_vars

\* C6: when such an add is given a non-empty name and Save is chosen at its
\* confirmation, the registry is the previous one with exactly the record of
\* the given name and cwd appended, described by the name, without addDirs
C6_AddAppends ==
  [][(/\ proc[1].pc = "add_confirm"
      /\ proc[1].args.argc = 2
      /\ proc[1].args.a0 # ""
      /\ last'.kind = "answer"
      /\ last'.sel = 1)
     => load(file') = Append(load(file), Given(proc[1].args))]_vars

\* add ls / was confirmed after another workspace had been registered
C6_Witness ==
  /\ proc[1].pc = "exited"
  /\ proc[1].msg = "Added"
  /\ last.sel = 1
  /\ Len(Registry) = 2
  /\ Registry[2] = [name |-> "ls", description |-> "ls", cwd |-> Root]

\* C7: a step in which a prompt or a selection returns cancelled writes
\* nothing, spawns nothing and leaves the loaded registry as it was
C7_CancelCommitsNothing ==
  [][last'.cancelled =>
       /\ file' = file
       /\ spawned' = spawned
       /\ proc'[1].pc # "exited" => proc'[1].config = proc[1].config]_vars

\* a prompt of the edit loop was cancelled in a registry of two workspaces
C7_Witness ==
  /\ last.cancelled
  /\ proc[1].pc = "edit_field"
  /\ Len(Registry) = 2

\* a directory of the workspace is gone
Missing(w) ==
  \/ w.cwd \notin fs
  \/ \E j \in 1..Len(addDirsOf(w)) : addDirsOf(w)[j] \notin fs

\* C8: launching a workspace one of whose directories is missing ends with
\* exit code 1 and no spawn; a run that reported a missing directory has
\* spawned nothing; and a workspace is spawned only when its cwd and all its
\* addDirs exist
C8_LaunchRevalidates ==
  /\ [](\A w \in Range(Registry) \cup Range(proc[1].config) :
          Missing(w) =>
            LET r == launch(proc[1], w)
            IN r.l.pc = "exited" /\ r.l.exitCode = 1 /\ r.spawn = <<>>)
  /\ [](proc[1].msg \in {"Working directory not found",
                         "Additional directory not found"}
          => proc[1].exitCode = 1 /\ spawned[1] = <<>>)
  /\ [][(/\ spawned'[1] # spawned[1]
         /\ spawned'[1] # <<>>
         /\ proc'[1].msg = "Launching workspace")
        => ~Missing(proc'[1].ws)]_vars

\* a launch died on a missing additional directory
C8_Witness ==
  /\ proc[1].pc = "exited"
  /\ proc[1].msg = "Additional directory not found"
  /\ proc[1].exitCode = 1
  /\ spawned[1] = <<>>

\* the arguments after the program: --add-dir and the entry, for each entry
FlagPairs(dirs) ==
  [k \in 1..(2 * Len(dirs)) |->
     IF k % 2 = 1 THEN Lit("--add-dir") ELSE Dir(dirs[k \div 2])]

\* C9: while the tool waits for the child, a workspace launch has spawned
\* the program once, in the workspace's cwd, with --add-dir and the entry for
\* each addDirs entry in stored order; a bare launch has spawned it once with
\* no argument and no cwd option
C9_SpawnArguments ==
  proc[1].pc = "waiting" =>
    /\ Len(spawned[1]) = 1
    /\ proc[1].msg = "Launching workspace" =>
         /\ DOMAIN spawned[1][1] = {"argv", "cwd"}
         /\ spawned[1][1].cwd = proc[1].ws.cwd
         /\ spawned[1][1].argv = <<Lit("claude")>> \o FlagPairs(addDirsOf(proc[1].ws))
    /\ proc[1].msg = "Launching Claude" =>
         /\ DOMAIN spawned[1][1] = {"argv"}
         /\ spawned[1][1].argv = <<Lit("claude")>>
    /\ proc[1].msg \in {"Launching workspace", "Launching Claude"}

\* a workspace with two additional directories was launched
C9_Witness ==
  /\ proc[1].pc = "waiting"
  /\ proc[1].msg = "Launching workspace"
  /\ Len(addDirsOf(proc[1].ws)) = 2

\* the first registered workspace whose name is n in some case variant
Named(n) ==
  LET S == {i \in 1..Len(Registry) : toLowerCase(Registry[i].name) = toLowerCase(n)}
  IN IF S = {} THEN 0 ELSE Min(S)

\* C10: whenever the tool can be started with a single argument n, a name
\* that is registered in some case variant launches the first such
\* workspace (or dies on a missing directory of it)
C10_LaunchByName ==
  proc[1].pc = "idle" =>
    \A n \in LaunchNames \ {""} :
      Named(n) # 0 =>
        LET r == main(Fresh, Argv(n, NoArgs))
            w == Registry[Named(n)]
        IN \/ r.l.pc = "waiting" /\ r.l.ws = w /\ Len(r.spawn) = 1
           \/ Missing(w) /\ r.l.pc = "exited" /\ r.l.exitCode = 1 /\ r.spawn = <<>>

\* C11: load returns an empty registry without a warning when the document
\* is absent, and an empty registry with a warning when the document does not
\* parse or parses to something whose workspaces field is not a sequence
C11_LoadContract ==
  /\ file.kind = "absent" => load(file) = <<>> /\ ~loadWarns(file)
  /\ file.kind \in {"unparsable", "shapeless"} =>
       load(file) = <<>> /\ loadWarns(file)

\* the screens of an invocation without arguments
Menus == {"welcome", "selector", "manage"}

\* C12 as claimed: a choice in the welcome screen, the selector or the manage
\* menu that ends the process, no program having been spawned, ends it with
\* exit code 0
C12_NoArgExitAsClaimed ==
  [][(proc[1].pc \in Menus /\ proc'[1].pc = "exited")
     => proc'[1].exitCode = 0]_vars

\* C12: a choice in the welcome screen, the selector or the manage menu that
\* ends the process ends it with exit code 0, or with exit code 1 after a
\* fatal message, nothing written and nothing spawned; the prompts of the
\* add, edit and remove flows end it with exit code 0 only; and after a spawn
\* the process ends with the exit code of the spawned program, 0 if it has none
C12_NoArgExit ==
  [][(proc[1].pc \notin {"idle", "exited"} /\ proc'[1].pc = "exited") =>
       IF proc[1].pc = "waiting"
       THEN /\ Len(spawned'[1]) = 1
            /\ proc'[1].exitCode = IF spawned'[1][1].exitCode = -1 THEN 0
                                   ELSE spawned'[1][1].exitCode
       ELSE IF proc[1].pc \in Menus
       THEN /\ spawned'[1] = <<>>
            /\ \/ proc'[1].exitCode = 0 /\ proc'[1].msg \notin DieMsgs
               \/ proc'[1].exitCode = 1 /\ proc'[1].msg \in DieMsgs /\ file' = file
       ELSE proc'[1].exitCode = 0]_vars

\* Add was chosen in the manage menu in a directory that is registered
C12_Witness ==
  /\ proc[1].pc = "exited"
  /\ proc[1].exitCode = 1
  /\ proc[1].msg = "already registered"
  /\ last.kind = "answer"
  /\ last.sel = 1

\* a workspace of c other than the i-th has the name v in some case variant
OtherNamed(c, i, v) ==
  \E j \in 1..Len(c) : j # i /\ toLowerCase(c[j].name) = toLowerCase(v)

\* C13: at the name prompt of the edit flow, a non-empty new name that
\* differs from the current one is refused, with a warning, the registry and
\* the document unchanged and the menu shown again, exactly when another
\* workspace has that name in some case variant; otherwise it is applied to
\* the workspace and saved
C13_RenameRejection ==
  proc[1].pc = "edit_name" =>
    \A v \in NameInputs :
      LET l == proc[1]
          ws == l.config[l.idx]
          r == editName(l, FALSE, v)
      IN (v # "" /\ v # ws.name) =>
           IF OtherNamed(l.config, l.idx, v)
           THEN /\ r.file = file
                /\ r.l.config = l.config
                /\ r.l.msg = "warn: already exists"
                /\ r.l.pc = "edit_field"
           ELSE /\ r.l.config = [l.config EXCEPT ![l.idx].name = v]
                /\ r.file = save(r.l.config)
                /\ r.l.pc = "edit_field"

\* the entries of dirs other than p, in their order
Pruned(dirs, p) == SelectSeq(dirs, LAMBDA d : d # p)

\* the record w after its working directory was changed to p
Moved(w, p) ==
  IF Pruned(addDirsOf(w), p) = <<>>
  THEN [name |-> w.name, description |-> w.description, cwd |-> p]
  ELSE [name |-> w.name, description |-> w.description, cwd |-> p,
        addDirs |-> Pruned(addDirsOf(w), p)]

\* C14: at the working-directory prompt of the edit flow, every path p that
\* exists and is the cwd of no other workspace is saved as the cwd of the
\* record, whose addDirs are the previous ones without the entries equal to
\* p, in their order, the key being absent when none is left; and every step
\* of that prompt that changes the document leaves such a record
C14_EditCwdPrunes ==
  /\ [](proc[1].pc = "edit_cwd" =>
          \A v \in CwdInputs \ {<<>>} :
            LET l == proc[1]
                ws == l.config[l.idx]
                p == resolvePath(v)
                r == editCwd(l, FALSE, v)
            IN (/\ p \in fs
                /\ \A j \in 1..Len(l.config) : j # l.idx => l.config[j].cwd # p)
               => /\ r.l.config = [l.config EXCEPT ![l.idx] = Moved(ws, p)]
                  /\ r.file = save(r.l.config)
                  /\ r.l.pc = "edit_field")
  /\ [][(proc[1].pc = "edit_cwd" /\ file' # file) =>
          LET i == proc[1].idx
              old == proc[1].config[i]
              new == load(file')[i]
          IN new = Moved(old, new.cwd)]_vars

\* the working directory was changed to a path that was one of two addDirs
C14_Witness ==
  /\ proc[1].pc = "edit_field"
  /\ last = Typed(FALSE)
  /\ proc[1].msg = "none"
  /\ Registry = proc[1].config
  /\ Len(Registry) = 1
  /\ Registry[1].cwd = HomeDir
  /\ addDirsOf(Registry[1]) = << <<"ls">> >>

\* the cwd or an additional directory given to add does not exist
AddMissing(a) ==
  \/ AddCwd(a) \notin fs
  \/ \E k \in 1..Len(a.rest) : resolvePath(a.rest[k]) \notin fs

\* the result r is a fatal error: a message, exit code 1, nothing written,
\* nothing spawned
Fatal(r) ==
  /\ r.l.pc = "exited"
  /\ r.l.exitCode = 1
  /\ r.l.msg \in DieMsgs
  /\ r.file = file
  /\ r.spawn = <<>>

\* a missing directory is fatal in add and at launch
MissingDirFatal ==
  /\ proc[1].pc = "idle" =>
       \A a \in AddArgs : AddMissing(a) => Fatal(main(Fresh, Argv("add", a)))
  /\ \A w \in Range(Registry) : Missing(w) => Fatal(launch(Fresh, w))

\* C15 as claimed: a missing directory is a fatal error in add, at launch,
\* and at the working-directory prompt of the edit flow
C15_MissingDirFatalAsClaimed ==
  /\ MissingDirFatal
  /\ proc[1].pc = "edit_cwd" =>
       \A v \in CwdInputs \ {<<>>} :
         resolvePath(v) \notin fs =>
           LET r == editCwd(proc[1], FALSE, v)
           IN r.l.pc = "exited" /\ r.l.exitCode = 1

\* C15: a missing directory is a fatal error in add and at launch; at the
\* working-directory prompt of the edit flow it is a warning that leaves the
\* registry and the document as they were and shows the field menu again
C15_MissingDirFatal ==
  /\ MissingDirFatal
  /\ proc[1].pc = "edit_cwd" =>
       \A v \in CwdInputs \ {<<>>} :
         resolvePath(v) \notin fs =>
           LET r == editCwd(proc[1], FALSE, v)
           IN /\ r.l.pc = "edit_field"
              /\ r.l.msg = "warn: Not found: path"
              /\ r.l.config = proc[1].config
              /\ r.file = file
              /\ r.spawn = <<>>

\* the edit flow warned about a working directory that does not exist
C15_Witness ==
  /\ proc[1].pc = "edit_field"
  /\ proc[1].msg = "warn: Not found: path"
  /\ HomeDir \notin fs
  /\ file.kind = "json"

\* the warnings of the edit loop
WarnMsgs == {"warn: already exists", "warn: Not found: path",
             "warn: Already used", "warn: Not found",
             "warn: Same as working directory", "warn: Already added",
             "warn: No directories to remove"}

\* the positions of the edit loop: the field menu and what it leads to
EditLoop == {"edit_field", "edit_name", "edit_desc", "edit_cwd", "edit_dirs",
             "edit_dirs_add", "edit_dirs_rm"}

\* the result r is the warning m: nothing changes and the field menu is next
Warned(r, m) ==
  /\ r.l.msg = m
  /\ r.l.pc = "edit_field"
  /\ r.l.config = proc[1].config
  /\ r.l.idx = proc[1].idx
  /\ r.file = file
  /\ r.spawn = <<>>

\* what each warning condition of the edit loop leads to
WarningConditions ==
  LET l == proc[1]
      ws == l.config[l.idx]
  IN /\ l.pc = "edit_name" =>
          \A v \in NameInputs \ {"", ws.name} :
            OtherNamed(l.config, l.idx, v) =>
              Warned(editName(l, FALSE, v), "warn: already exists")
     /\ l.pc = "edit_cwd" =>
          \A v \in CwdInputs \ {<<>>} :
            (/\ resolvePath(v) \in fs
             /\ \E j \in 1..Len(l.config) :
                  j # l.idx /\ l.config[j].cwd = resolvePath(v))
            => Warned(editCwd(l, FALSE, v), "warn: Already used")
     /\ l.pc = "edit_dirs_add" =>
          \A v \in DirInputs \ {<<>>} :
            LET p == resolvePath(v)
                r == editDirsAdd(l, FALSE, v)
            IN /\ p \notin fs => Warned(r, "warn: Not found")
               /\ (p \in fs /\ p = ws.cwd) =>
                    Warned(r, "warn: Same as working directory")
               /\ (p \in fs /\ p # ws.cwd /\ p \in Range(addDirsOf(ws))) =>
                    Warned(r, "warn: Already added")

\* C16: in the edit flow each warning condition leaves the in-memory and the
\* persisted registry as they were and the process running, with the field
\* menu shown next; so does every answer to a prompt or sub-menu of the loop
\* that issues a warning; and the loop
\* is left only from the field menu, by Done or by cancelling it, with exit
\* code 0
C16_WarningsKeepLoop ==
  /\ []WarningConditions
  /\ [][(proc[1].pc \in EditLoop \ {"edit_field"} /\ proc'[1].msg \in WarnMsgs) =>
          /\ file' = file
          /\ spawned' = spawned
          /\ proc'[1].config = proc[1].config
          /\ proc'[1].idx = proc[1].idx
          /\ proc'[1].pc = "edit_field"]_vars
  /\ [][(proc[1].pc \in EditLoop /\ proc'[1].pc \notin EditLoop) =>
          /\ proc[1].pc = "edit_field"
          /\ last'.sel \in {0, 5}
          /\ proc'[1].pc = "exited"
          /\ proc'[1].exitCode = 0
          /\ file' = file]_vars

\* a directory that is already among the addDirs was entered
C16_Witness ==
  /\ proc[1].pc = "edit_field"
  /\ proc[1].msg = "warn: Already added"
  /\ Registry = proc[1].config

\* the arguments of a command given one name
NameArg(n) == [argc |-> 1, a0 |-> n, a1 |-> <<>>, rest |-> <<>>]

\* the registry c with exactly its i-th record deleted
Deleted(c, i) == [j \in 1..(Len(c) - 1) |-> IF j < i THEN c[j] ELSE c[j + 1]]

\* C17: whenever the tool can be started, rm with a name that is registered
\* in some case variant saves the registry without the first such record,
\* all others unchanged and in order, as a workspaces sequence (empty when it
\* was the only one), and ends with exit code 0; and confirming Delete for
\* the record picked at position idx saves the registry without that record
C17_RemoveDeletesOne ==
  /\ [](proc[1].pc = "idle" =>
          \A n \in LaunchNames \ {""} :
            Named(n) # 0 =>
              LET r == main(Fresh, Argv("rm", NameArg(n)))
              IN /\ r.file = [kind |-> "json",
                              workspaces |-> Deleted(Registry, Named(n))]
                 /\ r.l.pc = "exited"
                 /\ r.l.exitCode = 0
                 /\ r.l.msg = "Deleted")
  /\ [][(proc[1].pc = "rm_confirm" /\ proc'[1].msg = "Deleted") =>
          /\ last'.sel = 1
          /\ file' = [kind |-> "json",
                      workspaces |-> Deleted(load(file), proc[1].idx)]
          /\ proc'[1].pc = "exited"
          /\ proc'[1].exitCode = 0]_vars

\* one of two workspaces was picked and deleted
C17_Witness ==
  /\ proc[1].pc = "exited"
  /\ proc[1].msg = "Deleted"
  /\ last.kind = "answer"
  /\ last.sel = 1
  /\ Len(Registry) = 1

\* the registries c and d have the same length and differ at most at i
SameBut(c, d, i) ==
  /\ Len(d) = Len(c)
  /\ \A j \in 1..Len(c) : j # i => d[j] = c[j]

\* C20: every step of an edit session on the workspace at position idx
\* leaves the persisted registry with the same length and the same records,
\* in the same order, at every other position; and while the session lasts
\* the same holds of the in-memory registry, and idx does not change
C20_EditChangesOneRecord ==
  [][proc[1].pc \in EditLoop =>
       /\ SameBut(load(file), load(file'), proc[1].idx)
       /\ proc'[1].pc \in EditLoop =>
            /\ proc'[1].idx = proc[1].idx
            /\ SameBut(proc[1].config, proc'[1].config, proc[1].idx)]_vars

\* the second of two workspaces was given a new description
C20_Witness ==
  /\ proc[1].pc = "edit_field"
  /\ proc[1].idx = 2
  /\ last = Typed(FALSE)
  /\ Len(Registry) = 2
  /\ Registry = proc[1].config
  /\ Registry[2].description = "notes"
  /\ Registry[1].description # "notes"

\* the registry invocation p holds in memory when it saves in this step:
\* what it loaded, with its own changes
InMemory(p) ==
  IF proc'[p].pc \in EditLoop THEN proc'[p].config
  ELSE IF proc[p].pc = "add_confirm" THEN Append(proc[p].config, proc[p].ws)
  ELSE Deleted(proc[p].config, proc[p].idx)

\* C18: with two invocations at once, every step that changes the document
\* is a step of one invocation and leaves the document equal to the registry
\* that invocation holds in memory, whatever the other invocation has saved
\* since it loaded (rm with a name loads and saves in one step)
C18_LastWriterWins ==
  [][file' # file =>
       \E p \in Procs :
         /\ \A q \in Procs \ {p} : proc'[q] = proc[q]
         /\ file'.kind = "json"
         /\ IF proc[p].pc = "idle"
            THEN \E i \in 1..Len(load(file)) :
                   load(file') = Deleted(load(file), i)
            ELSE load(file') = InMemory(p)]_vars

\* the first invocation added a workspace to the registry of one, and the
\* edit session of the second, which had loaded before, saved after it: the
\* added workspace is gone
C18_Witness ==
  /\ proc[1].pc = "exited"
  /\ proc[1].msg = "Added"
  /\ proc[2].pc = "edit_field"
  /\ proc[2].config = Registry
  /\ Len(Registry) = 1
  /\ Registry[1].cwd = HomeDir
  /\ Registry[1].description = "home"

\* C19: with two invocations at once, no registry in the document has two
\* names equal in some case variant, or two equal cwds
C19_ConcurrentUniqueness ==
  \A i, j \in 1..Len(Registry) :
    i # j =>
      /\ toLowerCase(Registry[i].name) # toLowerCase(Registry[j].name)
      /\ Registry[i].cwd # Registry[j].cwd

\* both invocations loaded the empty registry and both added: one workspace
C19_Witness ==
  /\ proc[1].pc = "exited"
  /\ proc[1].msg = "Added"
  /\ proc[2].pc = "exited"
  /\ proc[2].msg = "Added"
  /\ Len(Registry) = 1

====
